---- MODULE Spec2Model ----
(***************************************************************************)
(* Model of RenderImage (src/js/lib/render-image.js): backend selection at *)
(* construction, the sanitizedStack accessor, and the promise chain of     *)
(* render(): validate-all, render-all, renderFinal, getSize / resizeTo.    *)
(* Operations, the renderer backends, ImageDimensions and Vector2 are      *)
(* collaborators outside this file; they are modelled by their contracts.  *)
(***************************************************************************)
EXTENDS Integers, Sequences, FiniteSets, TLC

\* ---------------------------------------------------------------- bounds
MaxLen == 3      \* longest caller-supplied operations stack
MaxOps == 2      \* most operations in a stack that render() is run on
MaxCalls == 2    \* render() invocations per instance (they may overlap)
MaxDim == 2      \* widths and heights range over 1..MaxDim
MaxEdits == 1    \* changes the caller makes to its stack after construction

\* ---------------------------------------------------------------- values
Ops == {"opA", "opB"}
Falsy == {"null", "undefined"}
Entries == Ops \cup Falsy
Sizes == (1..MaxDim) \X (1..MaxDim)
NoSize == <<0, 0>>
NoErr == <<"none", 0>>
NotRead == <<"(not read)">>
Prefs == {"webgl", "canvas"}
Calls == 1..MaxCalls

RECURSIVE SeqsUpTo(_, _)
SeqsUpTo(S, n) ==
  IF n = 0 THEN {<<>>}
  ELSE LET shorter == SeqsUpTo(S, n - 1)
       IN shorter \cup {Append(s, e) : s \in {t \in shorter : Len(t) = n - 1}, e \in S}

\* dimension specifications: keep the size, or force a fixed size
DimSpecs == {NoSize} \cup Sizes

VARIABLES
  preferredRenderer,   \* this._options.preferredRenderer
  webglSupported,      \* what WebGLRenderer.isSupported() reports
  canvasSupported,     \* what CanvasRenderer.isSupported() reports
  image,               \* <<width, height>> of this._image
  dimensions,          \* the specification held by this._dimensions
  stack,               \* this._stack, the caller's operations stack
  life,                \* "new", "ready" (constructed) or "threw"
  renderer,            \* this._renderer: "null", "webgl" or "canvas"
  webglEnabled,        \* this._webglEnabled
  initialDimensions,   \* this._initialDimensions
  size,                \* the backend's current size (what getSize() returns)
  drawn,               \* drawImage: calls, image, backend, state of what it returned
  calls,               \* one record per render() invocation
  sanitized,           \* last value read from the sanitizedStack accessor
  gotRenderer,         \* last value returned by getRenderer()
  backend,             \* what the backend has received: operation effects and calls
  edits                \* number of changes the caller has made to its stack

vars == <<preferredRenderer, webglSupported, canvasSupported, image, dimensions,
          stack, life, renderer, webglEnabled, initialDimensions, size, drawn,
          calls, sanitized, gotRenderer, backend, edits>>

inputs == <<preferredRenderer, webglSupported, canvasSupported, image, dimensions, stack, edits>>
instance == <<life, renderer, webglEnabled, initialDimensions, drawn>>
reads == <<sanitized, gotRenderer>>

\* ------------------------------------------------------------ collaborators
\* Vector2.equals: component-wise equality
equals(a, b) == a[1] = b[1] /\ a[2] = b[2]

\* ImageDimensions.calculateFinalDimensions: a pure function of the
\* specification and the size it is given
calculateFinalDimensions(dims, initialSize) ==
  IF dims = NoSize THEN initialSize ELSE dims

\* ------------------------------------------------------------ pure helpers
\* mutant: the test `operation === null` instead of `!operation`
IsNull(operation) == operation = "null"
IsFalsy(operation) == operation \in Falsy

RECURSIVE sanitizedStack(_)
sanitizedStack(s) ==
  IF s = <<>> THEN <<>>
  ELSE LET rest == sanitizedStack(Tail(s))
       IN IF IsFalsy(Head(s)) THEN rest ELSE <<Head(s)>> \o rest

\* mutant: the preference is not consulted
selectRendererNoPreference(pref, webgl, canvas) ==
  IF webgl THEN "webgl"
  ELSE IF canvas THEN "canvas"
  ELSE "null"

\* _initRenderer's choice: the renderer it creates, "null" when none
selectRenderer(pref, webgl, canvas) ==
  IF webgl /\ pref # "canvas" THEN "webgl"
  ELSE IF canvas THEN "canvas"
  ELSE "null"

\* Promise.all over a list of deferreds whose states are given
Pending == [state |-> "pending", reason |-> NoErr]
Unused == [state |-> "none", reason |-> NoErr]
AllFulfilled(states) == \A i \in 1..Len(states) : states[i] = "ok"
\* mutant: an aggregate that completes only when one of its deferreds settles
PromiseAllNewPending(states) == Pending
PromiseAllNew(states) ==
  IF AllFulfilled(states) THEN [state |-> "fulfilled", reason |-> NoErr] ELSE Pending
\* mutant: Promise.allSettled, which waits for all and never rejects
PromiseAllSettledOnSettle(p, states, outcome, reason) ==
  IF p.state # "pending" THEN p
  ELSE IF \A i \in 1..Len(states) : states[i] # "pending"
       THEN [state |-> "fulfilled", reason |-> NoErr]
  ELSE p

\* mutant: a later rejection replaces the reason of an earlier one
PromiseAllLastReasonOnSettle(p, states, outcome, reason) ==
  IF outcome = "fail" /\ p.state \in {"pending", "rejected"}
  THEN [state |-> "rejected", reason |-> reason]
  ELSE IF p.state # "pending" THEN p
  ELSE IF AllFulfilled(states) THEN [state |-> "fulfilled", reason |-> NoErr]
  ELSE p

\* mutant: Promise.race, which settles with the first deferred that settles
PromiseRaceOnSettle(p, states, outcome, reason) ==
  IF p.state # "pending" THEN p
  ELSE IF outcome = "fail" THEN [state |-> "rejected", reason |-> reason]
  ELSE [state |-> "fulfilled", reason |-> NoErr]

PromiseAllOnSettle(p, states, outcome, reason) ==
  IF p.state # "pending" THEN p
  ELSE IF outcome = "fail" THEN [state |-> "rejected", reason |-> reason]
  ELSE IF AllFulfilled(states) THEN [state |-> "fulfilled", reason |-> NoErr]
  ELSE p

Const(n, x) == [i \in 1..n |-> x]

NewCall ==
  [st |-> "idle", stack |-> <<>>,
   v |-> <<>>, vall |-> Unused, r |-> <<>>, rall |-> Unused,
   fin |-> "none", rsz |-> "none", got |-> NoSize, rszArg |-> NoSize,
   error |-> NoErr, firstFail |-> NoErr, seq |-> FALSE,
   validated |-> <<>>, rendered |-> <<>>, editsAtCall |-> 0, editsAtRender |-> 0,
   nValidate |-> <<>>, nRender |-> <<>>, rendererArg |-> <<>>,
   nFinal |-> 0, nGetSize |-> 0, nResize |-> 0]

\* ------------------------------------------------------------------- Init
\* Everything the constructor has not set yet
Fresh ==
  /\ life = "new"
  /\ renderer = "null"
  /\ webglEnabled = FALSE
  /\ initialDimensions = NoSize
  /\ size = NoSize
  /\ drawn = [n |-> 0, image |-> NoSize, on |-> "null", state |-> "none"]
  /\ calls = [c \in Calls |-> NewCall]
  /\ sanitized = NotRead
  /\ gotRenderer = "(not read)"
  /\ edits = 0
  /\ backend = [effects |-> 0, renderFinal |-> 0, getSize |-> 0, resizeTo |-> 0]

Stacks == SeqsUpTo(Entries, MaxLen)
DefaultImage == <<MaxDim, MaxDim>>
DefaultStack == <<"opA">>

\* every environment and preference, every image size
InitBackends ==
  /\ preferredRenderer \in Prefs
  /\ webglSupported \in BOOLEAN
  /\ canvasSupported \in BOOLEAN
  /\ image \in Sizes
  /\ dimensions \in {NoSize, <<1, 1>>}
  /\ stack = DefaultStack

\* every stack of at most MaxOps operations, with and without a resize
InitStacks ==
  /\ preferredRenderer = "webgl"
  /\ webglSupported = TRUE
  /\ canvasSupported = TRUE
  /\ image = DefaultImage
  /\ dimensions \in {NoSize, <<1, 1>>}
  /\ stack \in {s \in Stacks : Len(sanitizedStack(s)) <= MaxOps}

\* every image size and every dimensions specification
InitSizes ==
  /\ preferredRenderer = "canvas"
  /\ webglSupported = TRUE
  /\ canvasSupported = TRUE
  /\ image \in Sizes
  /\ dimensions \in DimSpecs
  /\ stack = DefaultStack

Init == Fresh /\ (InitBackends \/ InitStacks \/ InitSizes)

\* the sanitizedStack accessor alone, on every stack
InitSan ==
  /\ Fresh
  /\ preferredRenderer = "webgl"
  /\ webglSupported = TRUE
  /\ canvasSupported = TRUE
  /\ image = DefaultImage
  /\ dimensions = NoSize
  /\ stack \in Stacks

\* ------------------------------------------------------------ constructor
\* constructor + _initRenderer
Construct ==
  /\ life = "new"
  /\ LET chosen == selectRenderer(preferredRenderer, webglSupported, canvasSupported)
     IN /\ initialDimensions' = image
        /\ renderer' = chosen
        /\ webglEnabled' = (chosen = "webgl")
        /\ IF chosen = "null"
           THEN /\ life' = "threw"
                /\ UNCHANGED <<size, drawn>>
           ELSE /\ life' = "ready"
                /\ size' = image
                /\ drawn' = [n |-> drawn.n + 1, image |-> image, on |-> chosen,
                              state |-> "pending"]
  /\ UNCHANGED <<inputs, calls, reads, backend>>

\* the sanitizedStack accessor read by a caller
ReadSanitizedStack ==
  /\ life = "ready"
  /\ sanitized' = sanitizedStack(stack)
  /\ UNCHANGED <<inputs, instance, size, calls, gotRenderer, backend>>

\* getRenderer() called by a caller
GetRenderer ==
  /\ life = "ready"
  /\ gotRenderer' = renderer
  /\ UNCHANGED <<inputs, instance, size, calls, sanitized, backend>>

\* the caller changes the array it handed to the constructor: it replaces or
\* nulls an entry, pushes one, or pops the last
StackEdits(s) ==
  {[s EXCEPT ![i] = e] : i \in 1..Len(s), e \in Entries}
    \cup (IF Len(s) < MaxLen THEN {Append(s, e) : e \in Entries} ELSE {})
    \cup (IF Len(s) > 0 THEN {SubSeq(s, 1, Len(s) - 1)} ELSE {})

MutateStack(new) ==
  /\ life = "ready"
  /\ edits < MaxEdits
  /\ new \in StackEdits(stack) \ {stack}
  /\ Len(sanitizedStack(new)) <= MaxOps
  /\ stack' = new
  /\ edits' = edits + 1
  /\ UNCHANGED <<preferredRenderer, webglSupported, canvasSupported, image, dimensions,
                 instance, size, calls, reads, backend>>

\* ---------------------------------------------------------------- render()
\* mutant: render() seeds the backend again before validating
RenderRedraw(c) ==
  /\ life = "ready"
  /\ calls[c].st = "idle"
  /\ \A d \in Calls : d < c => calls[d].st # "idle"
  /\ LET s == sanitizedStack(stack)
         n == Len(s)
     IN calls' = [calls EXCEPT ![c] =
          [@ EXCEPT !.st = "validating", !.stack = s,
                    !.validated = s, !.editsAtCall = edits,
                    !.seq = \A d \in Calls : d < c => calls[d].st \in {"resolved", "rejected"},
                    !.v = Const(n, "pending"), !.nValidate = Const(n, 1),
                    !.r = Const(n, "none"), !.nRender = Const(n, 0),
                    !.rendererArg = Const(n, "null"),
                    !.vall = PromiseAllNew(Const(n, "pending"))]]
  /\ drawn' = [drawn EXCEPT !.n = @ + 1]
  /\ UNCHANGED <<inputs, life, renderer, webglEnabled, initialDimensions, size, reads, backend>>

\* mutant: the sanitized stack is computed once and kept for later calls
RenderMemoized(c) ==
  /\ life = "ready"
  /\ calls[c].st = "idle"
  /\ \A d \in Calls : d < c => calls[d].st # "idle"
  /\ LET s == IF c > 1 THEN calls[1].stack ELSE sanitizedStack(stack)
         n == Len(s)
     IN calls' = [calls EXCEPT ![c] =
          [@ EXCEPT !.st = "validating", !.stack = s,
                    !.validated = s, !.editsAtCall = edits,
                    !.seq = \A d \in Calls : d < c => calls[d].st \in {"resolved", "rejected"},
                    !.v = Const(n, "pending"), !.nValidate = Const(n, 1),
                    !.r = Const(n, "none"), !.nRender = Const(n, 0),
                    !.rendererArg = Const(n, "null"),
                    !.vall = PromiseAllNew(Const(n, "pending"))]]
  /\ UNCHANGED <<inputs, instance, size, reads, backend>>

\* mutant: render() refuses to start while an earlier call is pending
RenderGuarded(c) ==
  /\ life = "ready"
  /\ calls[c].st = "idle"
  /\ \A d \in Calls : d < c => calls[d].st \in {"resolved", "rejected"}
  /\ LET s == sanitizedStack(stack)
         n == Len(s)
     IN calls' = [calls EXCEPT ![c] =
          [@ EXCEPT !.st = "validating", !.stack = s,
                    !.validated = s, !.editsAtCall = edits,
                    !.seq = TRUE,
                    !.v = Const(n, "pending"), !.nValidate = Const(n, 1),
                    !.r = Const(n, "none"), !.nRender = Const(n, 0),
                    !.rendererArg = Const(n, "null"),
                    !.vall = PromiseAllNew(Const(n, "pending"))]]
  /\ UNCHANGED <<inputs, instance, size, reads, backend>>

\* render(), synchronous part: sanitize, request every validation, build the chain
Render(c) ==
  /\ life = "ready"
  /\ calls[c].st = "idle"
  /\ \A d \in Calls : d < c => calls[d].st # "idle"
  /\ LET s == sanitizedStack(stack)
         n == Len(s)
     IN calls' = [calls EXCEPT ![c] =
          [@ EXCEPT !.st = "validating", !.stack = s,
                    !.validated = s, !.editsAtCall = edits,
                    !.seq = \A d \in Calls : d < c => calls[d].st \in {"resolved", "rejected"},
                    !.v = Const(n, "pending"), !.nValidate = Const(n, 1),
                    !.r = Const(n, "none"), !.nRender = Const(n, 0),
                    !.rendererArg = Const(n, "null"),
                    !.vall = PromiseAllNew(Const(n, "pending"))]]
  /\ UNCHANGED <<inputs, instance, size, reads, backend>>

\* mutant: the first callback reads this.sanitizedStack again
ThenRenderAllResanitized(c) ==
  /\ calls[c].st = "validating"
  /\ calls[c].vall.state = "fulfilled"
  /\ LET s == sanitizedStack(stack)
         n == Len(s)
     IN calls' = [calls EXCEPT ![c] =
          [@ EXCEPT !.st = "rendering",
                    !.rendered = s, !.editsAtRender = edits,
                    !.r = Const(n, "pending"), !.nRender = Const(n, 1),
                    !.rendererArg = Const(n, renderer),
                    !.rall = PromiseAllNew(Const(n, "pending"))]]
  /\ UNCHANGED <<inputs, instance, size, reads, backend>>

\* mutant: the render loop returns from inside its first iteration
ThenRenderFirstOnly(c) ==
  /\ calls[c].st = "validating"
  /\ calls[c].vall.state = "fulfilled"
  /\ LET n == Len(calls[c].stack)
         first(x, y) == [i \in 1..n |-> IF i = 1 THEN x ELSE y]
     IN calls' = [calls EXCEPT ![c] =
          [@ EXCEPT !.st = "rendering",
                    !.rendered = calls[c].stack, !.editsAtRender = edits,
                    !.r = first("pending", "none"), !.nRender = first(1, 0),
                    !.rendererArg = first(renderer, "null"),
                    !.rall = PromiseAllNew(Const(n, "pending"))]]
  /\ UNCHANGED <<inputs, instance, size, reads, backend>>

\* first then-callback: request render(this._renderer) of every operation
ThenRenderAll(c) ==
  /\ calls[c].st = "validating"
  /\ calls[c].vall.state = "fulfilled"
  /\ LET n == Len(calls[c].stack)
     IN calls' = [calls EXCEPT ![c] =
          [@ EXCEPT !.st = "rendering",
                    !.rendered = calls[c].stack, !.editsAtRender = edits,
                    !.r = Const(n, "pending"), !.nRender = Const(n, 1),
                    !.rendererArg = Const(n, renderer),
                    !.rall = PromiseAllNew(Const(n, "pending"))]]
  /\ UNCHANGED <<inputs, instance, size, reads, backend>>

\* mutant: the first callback does not return Promise.all(promises), so the
\* second callback runs without waiting for the operations
ThenRenderFinalUnawaited(c) ==
  /\ calls[c].st = "rendering"
  /\ calls[c].rall.state \in {"fulfilled", "pending"}
  /\ calls' = [calls EXCEPT ![c] =
       [@ EXCEPT !.st = "finalizing", !.fin = "pending", !.nFinal = @ + 1]]
  /\ backend' = [backend EXCEPT !.renderFinal = @ + 1]
  /\ UNCHANGED <<inputs, instance, size, reads>>

\* mutant: the composite of an earlier call is reused instead of rendered again
ThenRenderFinalCached(c) ==
  /\ calls[c].st = "rendering"
  /\ calls[c].rall.state = "fulfilled"
  /\ IF \E d \in Calls : calls[d].fin = "ok"
     THEN /\ calls' = [calls EXCEPT ![c] = [@ EXCEPT !.st = "finalizing", !.fin = "ok"]]
          /\ UNCHANGED backend
     ELSE /\ calls' = [calls EXCEPT ![c] =
               [@ EXCEPT !.st = "finalizing", !.fin = "pending", !.nFinal = @ + 1]]
          /\ backend' = [backend EXCEPT !.renderFinal = @ + 1]
  /\ UNCHANGED <<inputs, instance, size, reads>>

\* second then-callback: this._renderer.renderFinal()
ThenRenderFinal(c) ==
  /\ calls[c].st = "rendering"
  /\ calls[c].rall.state = "fulfilled"
  /\ calls' = [calls EXCEPT ![c] =
       [@ EXCEPT !.st = "finalizing", !.fin = "pending", !.nFinal = @ + 1]]
  /\ backend' = [backend EXCEPT !.renderFinal = @ + 1]
  /\ UNCHANGED <<inputs, instance, size, reads>>

\* mutant: the final size is resolved from this._initialDimensions
ThenResizeFromInitial(c) ==
  /\ calls[c].st = "finalizing"
  /\ calls[c].fin = "ok"
  /\ LET initialSize == size
         finalDimensions == calculateFinalDimensions(dimensions, initialDimensions)
     IN IF equals(finalDimensions, initialSize)
        THEN /\ backend' = [backend EXCEPT !.getSize = @ + 1]
             /\ calls' = [calls EXCEPT ![c] =
                    [@ EXCEPT !.st = "resolved", !.got = initialSize, !.nGetSize = @ + 1]]
        ELSE /\ backend' = [backend EXCEPT !.getSize = @ + 1, !.resizeTo = @ + 1]
             /\ calls' = [calls EXCEPT ![c] =
                    [@ EXCEPT !.st = "resizing", !.got = initialSize, !.nGetSize = @ + 1,
                              !.rsz = "pending", !.rszArg = finalDimensions,
                              !.nResize = @ + 1]]
  /\ UNCHANGED <<inputs, instance, size, reads>>

\* mutant: resizeTo is handed the size getSize() returned
ThenResizeToCurrent(c) ==
  /\ calls[c].st = "finalizing"
  /\ calls[c].fin = "ok"
  /\ LET initialSize == size
         finalDimensions == calculateFinalDimensions(dimensions, initialSize)
     IN IF equals(finalDimensions, initialSize)
        THEN /\ backend' = [backend EXCEPT !.getSize = @ + 1]
             /\ calls' = [calls EXCEPT ![c] =
                    [@ EXCEPT !.st = "resolved", !.got = initialSize, !.nGetSize = @ + 1]]
        ELSE /\ backend' = [backend EXCEPT !.getSize = @ + 1, !.resizeTo = @ + 1]
             /\ calls' = [calls EXCEPT ![c] =
                    [@ EXCEPT !.st = "resizing", !.got = initialSize, !.nGetSize = @ + 1,
                              !.rsz = "pending", !.rszArg = initialSize,
                              !.nResize = @ + 1]]
  /\ UNCHANGED <<inputs, instance, size, reads>>

\* mutant: resizeTo's promise is not returned, so the chain does not wait for it
ThenResizeUnawaited(c) ==
  /\ calls[c].st = "finalizing"
  /\ calls[c].fin = "ok"
  /\ LET initialSize == size
         finalDimensions == calculateFinalDimensions(dimensions, initialSize)
     IN IF equals(finalDimensions, initialSize)
        THEN /\ backend' = [backend EXCEPT !.getSize = @ + 1]
             /\ calls' = [calls EXCEPT ![c] =
                    [@ EXCEPT !.st = "resolved", !.got = initialSize, !.nGetSize = @ + 1]]
        ELSE /\ backend' = [backend EXCEPT !.getSize = @ + 1, !.resizeTo = @ + 1]
             /\ calls' = [calls EXCEPT ![c] =
                    [@ EXCEPT !.st = "resolved", !.got = initialSize, !.nGetSize = @ + 1,
                              !.rsz = "pending", !.rszArg = finalDimensions,
                              !.nResize = @ + 1]]
  /\ UNCHANGED <<inputs, instance, size, reads>>

\* third then-callback: getSize, calculateFinalDimensions, resizeTo unless equal
ThenResize(c) ==
  /\ calls[c].st = "finalizing"
  /\ calls[c].fin = "ok"
  /\ LET initialSize == size
         finalDimensions == calculateFinalDimensions(dimensions, initialSize)
     IN IF equals(finalDimensions, initialSize)
        THEN /\ backend' = [backend EXCEPT !.getSize = @ + 1]
             /\ calls' = [calls EXCEPT ![c] =
                    [@ EXCEPT !.st = "resolved", !.got = initialSize, !.nGetSize = @ + 1]]
        ELSE /\ backend' = [backend EXCEPT !.getSize = @ + 1, !.resizeTo = @ + 1]
             /\ calls' = [calls EXCEPT ![c] =
                    [@ EXCEPT !.st = "resizing", !.got = initialSize, !.nGetSize = @ + 1,
                              !.rsz = "pending", !.rszArg = finalDimensions,
                              !.nResize = @ + 1]]
  /\ UNCHANGED <<inputs, instance, size, reads>>

\* the chain's last promise follows the promise resizeTo returned
ResolveAfterResize(c) ==
  /\ calls[c].st = "resizing"
  /\ calls[c].rsz = "ok"
  /\ calls' = [calls EXCEPT ![c] = [@ EXCEPT !.st = "resolved"]]
  /\ UNCHANGED <<inputs, instance, size, reads, backend>>

\* a rejection skips the remaining then-callbacks and rejects render()'s promise
RejectionOf(k) ==
  IF k.st = "validating" /\ k.vall.state = "rejected" THEN k.vall.reason
  ELSE IF k.st = "rendering" /\ k.rall.state = "rejected" THEN k.rall.reason
  ELSE IF k.st = "finalizing" /\ k.fin = "fail" THEN <<"renderFinal", 0>>
  ELSE IF k.st = "resizing" /\ k.rsz = "fail" THEN <<"resizeTo", 0>>
  ELSE NoErr

\* mutant: renderFinal() is also requested when the chain fails
RejectAndFinalize(c) ==
  /\ RejectionOf(calls[c]) # NoErr
  /\ calls' = [calls EXCEPT ![c] =
       [@ EXCEPT !.st = "rejected", !.error = RejectionOf(calls[c]),
                 !.nFinal = @ + 1]]
  /\ backend' = [backend EXCEPT !.renderFinal = @ + 1]
  /\ UNCHANGED <<inputs, instance, size, reads>>

\* mutant: a failed call undoes on the backend what its operations applied
RejectAndRollBack(c) ==
  /\ RejectionOf(calls[c]) # NoErr
  /\ calls' = [calls EXCEPT ![c] =
       [@ EXCEPT !.st = "rejected", !.error = RejectionOf(calls[c])]]
  /\ backend' = [backend EXCEPT !.effects =
       @ - Cardinality({i \in DOMAIN calls[c].r : calls[c].r[i] = "ok"})]
  /\ UNCHANGED <<inputs, instance, size, reads>>

\* mutant: a failed call replaces the renderer by the Canvas one
RejectAndFallBack(c) ==
  /\ RejectionOf(calls[c]) # NoErr
  /\ calls' = [calls EXCEPT ![c] =
       [@ EXCEPT !.st = "rejected", !.error = RejectionOf(calls[c])]]
  /\ renderer' = "canvas"
  /\ webglEnabled' = FALSE
  /\ UNCHANGED <<inputs, life, initialDimensions, drawn, size, reads, backend>>

Reject(c) ==
  /\ RejectionOf(calls[c]) # NoErr
  /\ calls' = [calls EXCEPT ![c] =
       [@ EXCEPT !.st = "rejected", !.error = RejectionOf(calls[c])]]
  /\ UNCHANGED <<inputs, instance, size, reads, backend>>

\* ------------------------------------------------------------- environment
Note(k, err) == IF k.firstFail = NoErr THEN err ELSE k.firstFail

\* an operation's validateSettings() deferred settles
SettleValidate(c, i, outcome) ==
  /\ i \in 1..Len(calls[c].v)
  /\ calls[c].v[i] = "pending"
  /\ LET k == calls[c]
         v2 == [k.v EXCEPT ![i] = outcome]
         err == <<"validate", i>>
     IN calls' = [calls EXCEPT ![c] =
          [@ EXCEPT !.v = v2,
                    !.vall = PromiseAllOnSettle(k.vall, v2, outcome, err),
                    !.firstFail = IF outcome = "fail" THEN Note(k, err) ELSE @]]
  /\ UNCHANGED <<inputs, instance, size, reads, backend>>

\* an operation's render(renderer) deferred settles
SettleRender(c, i, outcome) ==
  /\ i \in 1..Len(calls[c].r)
  /\ calls[c].r[i] = "pending"
  /\ LET k == calls[c]
         r2 == [k.r EXCEPT ![i] = outcome]
         err == <<"render", i>>
     IN calls' = [calls EXCEPT ![c] =
          [@ EXCEPT !.r = r2,
                    !.rall = PromiseAllOnSettle(k.rall, r2, outcome, err),
                    !.firstFail = IF outcome = "fail" THEN Note(k, err) ELSE @]]
  /\ backend' = IF outcome = "ok" THEN [backend EXCEPT !.effects = @ + 1] ELSE backend
  /\ UNCHANGED <<inputs, instance, size, reads>>

\* the backend's renderFinal() deferred settles; the committed output has the
\* size the operations' effects gave it
SettleFinal(c, outcome, newSize) ==
  /\ calls[c].fin = "pending"
  /\ calls' = [calls EXCEPT ![c] =
       [@ EXCEPT !.fin = outcome,
                 !.firstFail = IF outcome = "fail" THEN Note(calls[c], <<"renderFinal", 0>>) ELSE @]]
  /\ size' = IF outcome = "ok" THEN newSize ELSE size
  /\ UNCHANGED <<inputs, instance, reads, backend>>

\* the backend's resizeTo(size) deferred settles
SettleResize(c, outcome) ==
  /\ calls[c].rsz = "pending"
  /\ calls' = [calls EXCEPT ![c] =
       [@ EXCEPT !.rsz = outcome,
                 !.firstFail = IF outcome = "fail" THEN Note(calls[c], <<"resizeTo", 0>>) ELSE @]]
  /\ size' = IF outcome = "ok" THEN calls[c].rszArg ELSE size
  /\ UNCHANGED <<inputs, instance, reads, backend>>

Outcomes == {"ok", "fail"}

\* the deferred result of the backend's drawImage(image) settles; the
\* constructor dropped it, so nothing in the instance reacts
SettleDraw(outcome) ==
  /\ drawn.state = "pending"
  /\ drawn' = [drawn EXCEPT !.state = outcome]
  /\ UNCHANGED <<inputs, life, renderer, webglEnabled, initialDimensions, size, calls,
                 reads, backend>>

Next ==
  \/ Construct
  \/ ReadSanitizedStack
  \/ \E c \in Calls : Render(c)
  \/ \E c \in Calls : ThenRenderAll(c)
  \/ \E c \in Calls : ThenRenderFinal(c)
  \/ \E c \in Calls : ThenResize(c)
  \/ \E c \in Calls : ResolveAfterResize(c)
  \/ \E c \in Calls : Reject(c)
  \/ \E c \in Calls, i \in 1..MaxOps, o \in Outcomes : SettleValidate(c, i, o)
  \/ \E c \in Calls, i \in 1..MaxOps, o \in Outcomes : SettleRender(c, i, o)
  \/ \E c \in Calls, o \in Outcomes, s \in Sizes : SettleFinal(c, o, s)
  \/ \E c \in Calls, o \in Outcomes : SettleResize(c, o)

Spec == Init /\ [][Next]_vars

\* the instance with a caller that also reads getRenderer()
NextRead == Next \/ GetRenderer
InitRead == Fresh /\ InitBackends
SpecRead == InitRead /\ [][NextRead]_vars

\* the instance with a caller that changes its stack between and during calls
InitMutate ==
  /\ Fresh
  /\ preferredRenderer = "webgl"
  /\ webglSupported = TRUE
  /\ canvasSupported = TRUE
  /\ image = DefaultImage
  /\ dimensions = <<1, 1>>
  /\ stack \in {<<>>, <<"opA">>, <<"opA", "opB">>}
NextMutate == Next \/ \E new \in Stacks : MutateStack(new)
SpecMutate == InitMutate /\ [][NextMutate]_vars

\* the instance on a backend whose drawImage completes later
NextDraw == Next \/ \E o \in Outcomes : SettleDraw(o)
InitDraw == Fresh /\ InitBackends
SpecDraw == InitDraw /\ [][NextDraw]_vars

\* the event loop runs every reaction that is ready, and (the hypothesis of
\* the liveness claim) every deferred the collaborators returned settles
Reactions ==
  \E c \in Calls :
    \/ ThenRenderAll(c)
    \/ ThenRenderFinal(c)
    \/ ThenResize(c)
    \/ ResolveAfterResize(c)
    \/ Reject(c)
Settlements ==
  \/ \E c \in Calls, i \in 1..MaxOps, o \in Outcomes : SettleValidate(c, i, o)
  \/ \E c \in Calls, i \in 1..MaxOps, o \in Outcomes : SettleRender(c, i, o)
  \/ \E c \in Calls, o \in Outcomes, s \in Sizes : SettleFinal(c, o, s)
  \/ \E c \in Calls, o \in Outcomes : SettleResize(c, o)
InitLive == Fresh /\ InitStacks /\ stack = sanitizedStack(stack)
SpecLive ==
  /\ InitLive
  /\ [][Next]_vars
  /\ WF_vars(Reactions)
  /\ WF_vars(Settlements)

NextSan == Construct \/ ReadSanitizedStack
SpecSan == InitSan /\ [][NextSan]_vars

\* ================================================================ claims
Settled(k) == k.st \in {"resolved", "rejected"}
Idx(k) == 1..Len(k.stack)
AllOk(states) == \A i \in DOMAIN states : states[i] = "ok"
SomeFailed(states) == \E i \in DOMAIN states : states[i] = "fail"
NonePending(states) == \A i \in DOMAIN states : states[i] # "pending"

\* C1 -- validation gate: in a render() call in which some validateSettings()
\* failed, no operation's render(renderer) has been requested (not even of an
\* operation whose own validation succeeded), and renderFinal, getSize and
\* resizeTo have not been called by that call.
C1_ValidationGate ==
  \A c \in Calls :
    SomeFailed(calls[c].v) =>
      /\ \A j \in DOMAIN calls[c].r : calls[c].r[j] = "none" /\ calls[c].nRender[j] = 0
      /\ calls[c].nFinal = 0
      /\ calls[c].nGetSize = 0
      /\ calls[c].nResize = 0
      /\ calls[c].fin = "none"
      /\ calls[c].rsz = "none"

\* a call rejected after one validation failed and another succeeded
C1_Witness ==
  \E c \in Calls :
    /\ calls[c].st = "rejected"
    /\ \E i, j \in DOMAIN calls[c].v : calls[c].v[i] = "fail" /\ calls[c].v[j] = "ok"

\* C2 -- phase barrier: once a call has requested an operation's render, none
\* of its validateSettings() deferreds is pending; once it has requested
\* renderFinal(), every operation render was requested and none is pending;
\* once it has called getSize() or resizeTo(), renderFinal() was requested and
\* has settled.  The phases are requested in the order validate, render,
\* finalize, resize.
C2_PhaseBarrier ==
  \A c \in Calls :
    LET k == calls[c] IN
    /\ (\E i \in DOMAIN k.r : k.r[i] # "none" \/ k.nRender[i] > 0) =>
         /\ NonePending(k.v)
         /\ \A i \in DOMAIN k.v : k.nValidate[i] = 1
    /\ (k.nFinal > 0 \/ k.fin # "none") =>
         /\ NonePending(k.v) /\ NonePending(k.r)
         /\ \A i \in DOMAIN k.r : k.nRender[i] = 1
    /\ (k.nGetSize > 0 \/ k.nResize > 0 \/ k.rsz # "none") =>
         /\ k.nFinal = 1
         /\ k.fin \notin {"none", "pending"}
         /\ NonePending(k.v) /\ NonePending(k.r)

\* a call of two operations that went through all four phases
C2_Witness ==
  \E c \in Calls :
    /\ Len(calls[c].stack) = 2
    /\ calls[c].st = "resizing"
    /\ calls[c].rsz = "pending"

\* C3 (as stated) -- every settled render() call has called renderFinal()
\* exactly once, whatever the outcome of its validation and render phases.
C3_AsClaimed ==
  \A c \in Calls : Settled(calls[c]) => calls[c].nFinal = 1

\* C3 (amended) -- a render() call calls renderFinal() at most once, and only
\* after every validation and every operation render of the call succeeded;
\* a settled call has called it exactly once if they all succeeded and not at
\* all if a validation or an operation render failed.
C3_RenderFinalOnce ==
  \A c \in Calls :
    LET k == calls[c] IN
    /\ k.nFinal <= 1
    /\ k.nFinal = 1 => AllOk(k.v) /\ AllOk(k.r)
    /\ Settled(k) => (k.nFinal = 1 <=> AllOk(k.v) /\ AllOk(k.r))
    /\ Settled(k) /\ (SomeFailed(k.v) \/ SomeFailed(k.r)) => k.nFinal = 0

\* two settled calls, one that finalized after two renders and one that did not
C3_Witness ==
  \E c, d \in Calls :
    /\ Settled(calls[c]) /\ Len(calls[c].stack) = 2 /\ calls[c].nFinal = 1
    /\ Settled(calls[d]) /\ SomeFailed(calls[d].r) /\ calls[d].nFinal = 0

\* C4 -- identity elision: a call that reached the resize phase and for which
\* the size resolved from the post-finalize getSize() equals that size has
\* not called resizeTo and is resolved.
C4_IdentityElision ==
  \A c \in Calls :
    LET k == calls[c] IN
    (k.nGetSize > 0 /\ calculateFinalDimensions(dimensions, k.got) = k.got) =>
      /\ k.nResize = 0
      /\ k.rsz = "none"
      /\ k.st = "resolved"

\* an elided resize on a backend whose size is no longer the initial size
C4_Witness ==
  \E c \in Calls :
    /\ calls[c].st = "resolved"
    /\ calls[c].nGetSize = 1
    /\ calls[c].nResize = 0
    /\ calls[c].got # initialDimensions

\* C5 -- a call calls resizeTo at most once; a call that reached the resize
\* phase with a resolved size different from the post-finalize size has called
\* it exactly once, with the resolved size.
C5_ResizeOnceWithResolved ==
  \A c \in Calls :
    LET k == calls[c]
        resolved == calculateFinalDimensions(dimensions, k.got)
    IN /\ k.nResize <= 1
       /\ (k.nGetSize > 0 /\ resolved # k.got) =>
            /\ k.nResize = 1
            /\ k.rszArg = resolved
            /\ k.rszArg # k.got
       /\ k.nResize = 1 => k.nGetSize = 1 /\ resolved # k.got

\* a resize whose argument is neither the current nor the initial size
C5_Witness ==
  \E c \in Calls :
    /\ calls[c].nResize = 1
    /\ calls[c].rszArg # calls[c].got
    /\ calls[c].rszArg # initialDimensions
    /\ calls[c].got # initialDimensions

\* C6 -- a resolved call has no resizeTo pending or failed, and its
\* validations, operation renders and renderFinal all succeeded; a call whose
\* resizeTo failed is never resolved, and once settled it is rejected with
\* resizeTo's error.
C6_ResultAfterResize ==
  \A c \in Calls :
    LET k == calls[c] IN
    /\ k.st = "resolved" =>
         /\ k.rsz \in {"none", "ok"}
         /\ k.rsz = "none" <=> k.nResize = 0
         /\ AllOk(k.v) /\ AllOk(k.r) /\ k.fin = "ok"
         /\ \A i \in Idx(k) : k.nValidate[i] = 1 /\ k.nRender[i] = 1
         /\ k.nGetSize = 1
    /\ k.rsz = "pending" => ~Settled(k)
    /\ k.rsz = "fail" => k.st \in {"resizing", "rejected"}
    /\ k.rsz = "fail" /\ Settled(k) => k.error = <<"resizeTo", 0>>

\* one call resolved after its resizeTo succeeded, another rejected by resizeTo
C6_Witness ==
  \E c, d \in Calls :
    /\ calls[c].st = "resolved" /\ calls[c].rsz = "ok"
    /\ calls[d].st = "rejected" /\ calls[d].rsz = "fail"

\* C7 (as stated) -- after construction: WebGL is selected when both are
\* supported and the preference is not canvas-only; construction fails when
\* neither is supported; otherwise Canvas is selected when the preference is
\* canvas-only or WebGL is unsupported.
C7_AsClaimed ==
  life # "new" =>
    /\ (webglSupported /\ canvasSupported /\ preferredRenderer # "canvas") =>
         (life = "ready" /\ renderer = "webgl")
    /\ (~webglSupported /\ ~canvasSupported) => life = "threw"
    /\ ((preferredRenderer = "canvas" \/ ~webglSupported)
          /\ (webglSupported \/ canvasSupported)) =>
         (life = "ready" /\ renderer = "canvas")

\* C7 (amended) -- after construction: WebGL is selected exactly when WebGL is
\* supported and the preference is not canvas-only (whether or not Canvas is
\* supported); Canvas is selected exactly when Canvas is supported and the
\* preference is canvas-only or WebGL is unsupported; construction fails
\* exactly when Canvas is unsupported and the preference is canvas-only or
\* WebGL is unsupported.
C7_BackendSelection ==
  life # "new" =>
    /\ (life = "ready" /\ renderer = "webgl") <=>
         (webglSupported /\ preferredRenderer # "canvas")
    /\ (life = "ready" /\ renderer = "canvas") <=>
         (canvasSupported /\ (preferredRenderer = "canvas" \/ ~webglSupported))
    /\ (life = "threw" /\ renderer = "null") <=>
         (~canvasSupported /\ (preferredRenderer = "canvas" \/ ~webglSupported))
    /\ webglEnabled <=> renderer = "webgl"

\* construction failed with canvas-only preference although WebGL is supported
C7_Witness ==
  /\ life = "threw"
  /\ preferredRenderer = "canvas"
  /\ webglSupported
  /\ ~canvasSupported

\* C8 -- drawImage has been called once, on the selected backend with the
\* original image, on every constructed instance, whatever render() calls
\* were made; it has not been called on an instance whose construction
\* failed; no render() call starts before it.
C8_DrawImageOnce ==
  /\ life = "ready" =>
       drawn.n = 1 /\ drawn.image = image /\ drawn.on = renderer /\ renderer # "null"
  /\ life \in {"new", "threw"} =>
       drawn.n = 0 /\ \A c \in Calls : calls[c].st = "idle"
  /\ \A c \in Calls : calls[c].st # "idle" => drawn.n = 1

\* two render() calls, one resolved and one rejected, that overlapped
C8_Witness ==
  /\ drawn.n = 1
  /\ calls[1].st = "rejected"
  /\ calls[2].st = "resolved"
  /\ \E i \in DOMAIN calls[1].r : calls[1].r[i] = "pending"

\* C9 -- the sanitized stack is the subsequence of the non-falsy entries of
\* the stack in their order: it has no falsy entry, and the n-th non-falsy
\* entry of the stack is its n-th entry.
Kept(s) == {i \in 1..Len(s) : s[i] \notin Falsy}
Rank(s, i) == Cardinality({j \in Kept(s) : j <= i})
C9_SanitizedIsSubsequence ==
  sanitized # NotRead =>
    /\ Len(sanitized) = Cardinality(Kept(stack))
    /\ \A n \in 1..Len(sanitized) : sanitized[n] \notin Falsy
    /\ \A i \in Kept(stack) : sanitized[Rank(stack, i)] = stack[i]

\* two different operations kept in order, a falsy entry dropped between them
C9_Witness ==
  /\ sanitized = <<"opB", "opA">>
  /\ stack = <<"opB", "undefined", "opA">>

\* C10 -- a rejected call carries the error of the first step that failed in
\* it, a step that did fail; a call in which a step failed is never resolved;
\* no step of a call is requested more than once.
FailedSteps(k) ==
  {<<"validate", i>> : i \in {j \in DOMAIN k.v : k.v[j] = "fail"}}
    \cup {<<"render", i>> : i \in {j \in DOMAIN k.r : k.r[j] = "fail"}}
    \cup (IF k.fin = "fail" THEN {<<"renderFinal", 0>>} ELSE {})
    \cup (IF k.rsz = "fail" THEN {<<"resizeTo", 0>>} ELSE {})
C10_FailureCarriesCause ==
  \A c \in Calls :
    LET k == calls[c] IN
    /\ k.st = "rejected" =>
         /\ k.error # NoErr
         /\ k.error \in FailedSteps(k)
         /\ k.error = k.firstFail
    /\ FailedSteps(k) # {} => k.st # "resolved"
    /\ \A i \in DOMAIN k.nValidate : k.nValidate[i] <= 1
    /\ \A i \in DOMAIN k.nRender : k.nRender[i] <= 1
    /\ k.nFinal <= 1 /\ k.nGetSize <= 1 /\ k.nResize <= 1

\* a call rejected with its first failure while a later one also failed
C10_Witness ==
  \E c \in Calls :
    /\ calls[c].st = "rejected"
    /\ calls[c].error = <<"render", 2>>
    /\ calls[c].r[1] = "fail"

\* C11 -- a call in which an operation's render failed is never resolved, is
\* rejected with the error of a render that failed, and has requested neither
\* renderFinal nor getSize nor resizeTo; the backend has received no call
\* beyond those the render() calls requested, and every effect an operation
\* applied (before or after the failure) is still on the backend.
RECURSIVE SumCalls(_, _)
SumCalls(f(_), n) == IF n = 0 THEN 0 ELSE f(calls[n]) + SumCalls(f, n - 1)
Applied(k) == Cardinality({i \in DOMAIN k.r : k.r[i] = "ok"})
FinalsOf(k) == k.nFinal
SizeQueriesOf(k) == k.nGetSize
ResizesOf(k) == k.nResize
C11_RenderFailureNoCompensation ==
  /\ \A c \in Calls :
       LET k == calls[c] IN
       SomeFailed(k.r) =>
         /\ k.st \in {"rendering", "rejected"}
         /\ k.st = "rejected" =>
              \E i \in DOMAIN k.r : k.r[i] = "fail" /\ k.error = <<"render", i>>
         /\ k.nFinal = 0 /\ k.nGetSize = 0 /\ k.nResize = 0
         /\ k.fin = "none" /\ k.rsz = "none"
  /\ backend.effects = SumCalls(Applied, MaxCalls)
  /\ backend.renderFinal = SumCalls(FinalsOf, MaxCalls)
  /\ backend.getSize = SumCalls(SizeQueriesOf, MaxCalls)
  /\ backend.resizeTo = SumCalls(ResizesOf, MaxCalls)
  /\ drawn.n <= 1

\* a call rejected by a failed render while another operation's effect is applied
C11_Witness ==
  \E c \in Calls :
    /\ calls[c].st = "rejected"
    /\ calls[c].error = <<"render", 1>>
    /\ calls[c].r = <<"fail", "ok">>
    /\ backend.effects >= 1

\* C12 (as stated) -- every settled call that passed its validation and
\* render phases has issued its own renderFinal() and its own getSize().
C12_AsClaimed ==
  \A c \in Calls :
    LET k == calls[c] IN
    (Settled(k) /\ AllOk(k.v) /\ AllOk(k.r)) => k.nFinal = 1 /\ k.nGetSize = 1

\* C12 (amended) -- nothing is cached across calls: every call that passed
\* its validation and render phases has issued its own renderFinal(), and its
\* own getSize() once that renderFinal() succeeded (none if it failed), having
\* validated and rendered every operation of its stack once; the backend has
\* received one renderFinal() per such call and one getSize() per such call
\* whose renderFinal() succeeded.
Passed(k) ==
  \/ k.st \in {"finalizing", "resizing", "resolved"}
  \/ k.st = "rejected" /\ AllOk(k.v) /\ AllOk(k.r)
Queried(k) == Passed(k) /\ k.st # "finalizing"
C12_NoCaching ==
  /\ \A c \in Calls :
       LET k == calls[c] IN
       Passed(k) =>
         /\ k.nFinal = 1
         /\ \A i \in Idx(k) : k.nValidate[i] = 1 /\ k.nRender[i] = 1
         /\ (Queried(k) /\ k.fin = "ok") => k.nGetSize = 1
         /\ k.fin # "ok" => k.nGetSize = 0
  /\ backend.renderFinal = Cardinality({c \in Calls : Passed(calls[c])})
  /\ backend.getSize =
       Cardinality({c \in Calls : Queried(calls[c]) /\ calls[c].fin = "ok"})

\* two calls, the second started after the first had resolved: two of each
C12_Witness ==
  /\ calls[1].st = "resolved"
  /\ calls[2].st = "resolved"
  /\ calls[2].seq
  /\ Len(calls[2].stack) = 2
  /\ backend.renderFinal = 2
  /\ backend.getSize = 2

\* C13 -- the sanitized stack is recomputed on every call: the operations a
\* render() call validates are the non-falsy entries, in order, that the
\* caller's stack holds at the moment the call is made, and the operations it
\* later renders are those same operations.
IsFilteredCopy(out, s) ==
  /\ Len(out) = Cardinality(Kept(s))
  /\ \A n \in 1..Len(out) : out[n] \notin Falsy
  /\ \A i \in Kept(s) : out[Rank(s, i)] = s[i]
C13_StackRecomputed ==
  [][\A c \in Calls :
       /\ (calls[c].st = "idle" /\ calls'[c].st # "idle") =>
            IsFilteredCopy(calls'[c].validated, stack)
       /\ (calls[c].st = "validating" /\ calls'[c].st = "rendering") =>
            calls'[c].rendered = calls[c].validated
       /\ calls[c].st # "idle" => calls'[c].validated = calls[c].validated]_vars

\* the caller nulled an entry between two calls; the second call rendered the rest
C13_Witness ==
  /\ calls[1].rendered = <<"opA", "opB">>
  /\ calls[1].editsAtCall = 0
  /\ calls[2].editsAtCall = 1
  /\ calls[2].seq
  /\ stack = <<"null", "opB">>
  /\ calls[2].rendered = <<"opB">>

\* C19 -- within one call the sanitized stack is taken once and used for both
\* phases: the operations whose render was requested are exactly, and in the
\* same order, the operations whose validateSettings() was requested in that
\* call, all of which succeeded, whatever the caller did to its stack while
\* the validations were pending; no operation is rendered without having been
\* validated in the same call.
C19_SnapshotReused ==
  \A c \in Calls :
    LET k == calls[c] IN
    /\ (k.rendered # <<>> \/ \E i \in DOMAIN k.nRender : k.nRender[i] > 0) =>
         /\ k.rendered = k.validated
         /\ DOMAIN k.r = DOMAIN k.v
         /\ AllOk(k.v)
    /\ \A i \in DOMAIN k.nRender :
         k.nRender[i] > 0 =>
           \E j \in DOMAIN k.v :
             /\ k.validated[j] = k.rendered[i]
             /\ k.nValidate[j] = 1
             /\ k.v[j] = "ok"

\* the caller changed its stack while the validations of a call were pending
C19_Witness ==
  \E c \in Calls :
    /\ calls[c].st = "rendering"
    /\ calls[c].editsAtCall = 0
    /\ calls[c].editsAtRender = 1
    /\ calls[c].rendered = <<"opA", "opB">>
    /\ sanitizedStack(stack) # calls[c].rendered

\* C14 (as stated) -- a settled call has no validateSettings() or operation
\* render deferred still pending.
C14_AsClaimed ==
  \A c \in Calls :
    Settled(calls[c]) => NonePending(calls[c].v) /\ NonePending(calls[c].r)

\* C14 (amended) -- a call waits at a phase boundary until every deferred of
\* the phase succeeded or the first one failed: while a deferred of the phase
\* is pending and none has failed the call stays in that phase, a resolved
\* call has none pending, and a call that settled with one pending was
\* rejected by a failure of the same phase.
C14_WaitsForAllOrFirstFailure ==
  \A c \in Calls :
    LET k == calls[c] IN
    /\ (~NonePending(k.v) /\ ~SomeFailed(k.v)) => k.st = "validating"
    /\ (~NonePending(k.r) /\ ~SomeFailed(k.r)) => k.st = "rendering"
    /\ k.st = "resolved" => NonePending(k.v) /\ NonePending(k.r)
    /\ (Settled(k) /\ ~NonePending(k.v)) =>
         /\ k.st = "rejected"
         /\ \E i \in DOMAIN k.v : k.v[i] = "fail" /\ k.error = <<"validate", i>>
    /\ (Settled(k) /\ ~NonePending(k.r)) =>
         /\ k.st = "rejected"
         /\ \E i \in DOMAIN k.r : k.r[i] = "fail" /\ k.error = <<"render", i>>

\* a call rejected by its first validation while its second is still pending
C14_Witness ==
  \E c \in Calls :
    /\ calls[c].st = "rejected"
    /\ calls[c].v = <<"fail", "pending">>

\* C15 -- full fan-out: a started call has requested validateSettings() once
\* from every operation of its sanitized stack, whatever the outcome of any of
\* them; a call that left the validation phase with every validation
\* successful, and any call that requested a render at all, has requested
\* render once from every operation of that stack, each with the instance's
\* renderer.
C15_FullFanOut ==
  \A c \in Calls :
    LET k == calls[c]
        n == Len(k.stack)
    IN k.st # "idle" =>
         /\ k.validated = k.stack
         /\ DOMAIN k.v = 1..n /\ DOMAIN k.nValidate = 1..n
         /\ \A i \in 1..n : k.nValidate[i] = 1 /\ k.v[i] # "none"
         /\ DOMAIN k.r = 1..n /\ DOMAIN k.nRender = 1..n
         /\ ((AllOk(k.v) /\ k.st # "validating")
               \/ \E i \in 1..n : k.nRender[i] > 0 \/ k.r[i] # "none") =>
              \A i \in 1..n :
                /\ k.nRender[i] = 1
                /\ k.r[i] # "none"
                /\ k.rendererArg[i] = renderer

\* both renders of a call are in flight at once, on the same renderer
C15_Witness ==
  \E c \in Calls :
    /\ calls[c].st = "rendering"
    /\ calls[c].r = <<"pending", "pending">>
    /\ calls[c].rendererArg = <<renderer, renderer>>
    /\ renderer = "webgl"

\* C16 -- whenever a call has requested an operation's render or
\* renderFinal(), the drawImage issued at construction has settled.
C16_DrawSettledBeforeOperations ==
  \A c \in Calls :
    (calls[c].nFinal > 0 \/ \E i \in DOMAIN calls[c].nRender : calls[c].nRender[i] > 0) =>
      drawn.state \in {"ok", "fail"}

\* C17 -- render() has no reentry guard: on a constructed instance the next
\* render() call can always be made, whatever phase the earlier calls are in;
\* the step that makes it puts the new call in its validation phase with every
\* validation requested and leaves the other calls as they are; and each call
\* is in a phase only after the phases before it succeeded.
C17_StartsCall(c) == calls[c].st = "idle" /\ calls'[c].st # "idle"
C17_NoReentryGuard ==
  /\ [](\A c \in Calls :
          (life = "ready" /\ calls[c].st = "idle"
             /\ \A d \in Calls : d < c => calls[d].st # "idle")
            => ENABLED Render(c))
  /\ [][\A c \in Calls :
          C17_StartsCall(c) =>
            /\ calls'[c].st = "validating"
            /\ \A i \in DOMAIN calls'[c].v : calls'[c].v[i] = "pending"
            /\ \A d \in Calls \ {c} : calls'[d] = calls[d]]_vars
  /\ [](\A c \in Calls :
          LET k == calls[c] IN
          /\ k.st \in {"rendering", "finalizing", "resizing"} => AllOk(k.v)
          /\ k.st \in {"finalizing", "resizing"} => AllOk(k.r) /\ k.fin # "none"
          /\ k.st = "resizing" => k.fin = "ok" /\ k.rsz # "none")

\* the first call's renderFinal() and a render of the second are pending together
C17_Witness ==
  /\ calls[1].st = "finalizing"
  /\ calls[1].fin = "pending"
  /\ calls[2].st = "rendering"
  /\ ~calls[2].seq
  /\ \E i \in DOMAIN calls[2].r : calls[2].r[i] = "pending"

\* C18 -- on a constructed instance exactly one backend is selected and the
\* webgl flag tells which; no step (a render() call and what follows it, an
\* accessor read, a failure) changes the renderer or the flag, and
\* getRenderer() returns that renderer.
C18_SelectionFixed ==
  /\ [](life = "ready" =>
          /\ renderer \in {"webgl", "canvas"}
          /\ webglEnabled <=> renderer = "webgl"
          /\ gotRenderer # "(not read)" => gotRenderer = renderer)
  /\ [](life # "ready" => gotRenderer = "(not read)")
  /\ [][life = "ready" =>
          /\ life' = "ready"
          /\ renderer' = renderer
          /\ webglEnabled' = webglEnabled]_vars

\* the WebGL renderer read back after one call was rejected and one resolved
C18_Witness ==
  /\ gotRenderer = "webgl"
  /\ webglEnabled
  /\ sanitized # NotRead
  /\ calls[1].st = "rejected"
  /\ calls[2].st = "resolved"

\* C20 -- when every deferred the operations and the backend returned
\* eventually settles, every render() call that was made eventually settles;
\* and there is no timeout: a call is never settled while a deferred of its
\* current phase is pending and none of that phase has failed.
C20_SettlesIffDeferredsSettle ==
  /\ \A c \in Calls : (calls[c].st # "idle") ~> Settled(calls[c])
  /\ [](\A c \in Calls :
          LET k == calls[c] IN
          /\ (~NonePending(k.v) /\ ~SomeFailed(k.v)) => ~Settled(k)
          /\ (~NonePending(k.r) /\ ~SomeFailed(k.r)) => ~Settled(k)
          /\ k.fin = "pending" => ~Settled(k)
          /\ k.rsz = "pending" => ~Settled(k))

\* a call that is not settled because its renderFinal() is still pending
C20_Witness ==
  \E c \in Calls :
    /\ calls[c].fin = "pending"
    /\ calls[c].st = "finalizing"
    /\ Len(calls[c].stack) = 2
    /\ \E d \in Calls : calls[d].st = "resolved"

====
